---- MODULE Spec2Model ----
(***************************************************************************)
(* Model of the per-user journal store of AudioBio_Backend:                *)
(* app/mongo_db_logic.py (date helpers, JournalEntry, DayEntryBundle,      *)
(* Users, JournalManager) and the request steps of app/main.py that drive  *)
(* it.  Date strings are modelled as records [d, b, Y, sep, upper]: the    *)
(* day, the month abbreviation (as its month number), the year, the        *)
(* separator and whether the text has been upper-cased.                    *)
(***************************************************************************)
EXTENDS Integers, Sequences, FiniteSets, TLC

VARIABLES utcnow, db, mgr, lastOp

vars == <<utcnow, db, mgr, lastOp>>

(***************************************************************************)
(* Bounds of the model.                                                    *)
(***************************************************************************)
MaxTime == 1
MaxEntries == 2
FirstYear == 2023
NumYears == 2

\* the user and the request of Spec; all users and all requests of the model
Users == {"u1"}
Handles == {1}
AllUsers == {"u1", "u2"}
AllHandles == {1, 2}
Passwords == {"secret", "wrong"}
Ids == {"A1B2C3D4E", "F5A6B7C8D"}
FileNames == {"rec.webm"}
Seconds == {-2, 3}
Texts == {"hello"}
Years == FirstYear..(FirstYear + NumYears - 1)
Months == 1..12
StartDate == [y |-> 2024, m |-> 2, d |-> 28]
None == "None"
\* None in the place of a date string
NoDate == [d |-> 0, b |-> 0, Y |-> 0, sep |-> "None", upper |-> FALSE]
\* the (day, month, year) path parameters the requests are tried with
DateInputs == {<<28, 2, 2024>>, <<29, 2, 2024>>, <<30, 2, 2024>>}
\* the (month, year) the streaks are requested for in Spec
StreakInputs == {<<2, 2024>>}

(***************************************************************************)
(* The proleptic Gregorian calendar of datetime / calendar.                *)
(***************************************************************************)
isleap(year) == year % 4 = 0 /\ (year % 100 # 0 \/ year % 400 = 0)

mdays == <<31, 28, 31, 30, 31, 30, 31, 31, 30, 31, 30, 31>>

monthlen(year, month) == mdays[month] + (IF month = 2 /\ isleap(year) THEN 1 ELSE 0)

RECURSIVE days_before_month(_, _)
days_before_month(year, month) ==
    IF month = 1 THEN 0
    ELSE days_before_month(year, month - 1) + monthlen(year, month - 1)

days_before_year(year) ==
    LET y == year - 1 IN y * 365 + (y \div 4) - (y \div 100) + (y \div 400)

toordinal(date) == days_before_year(date.y) + days_before_month(date.y, date.m) + date.d

\* date.weekday(): Monday is 0
weekday(date) == (toordinal(date) + 6) % 7

is_date(year, month, day) ==
    /\ year \in 1..9999
    /\ month \in 1..12
    /\ day >= 1
    /\ day <= monthlen(year, month)

prevmonth(year, month) == IF month = 1 THEN <<year - 1, 12>> ELSE <<year, month - 1>>

nextmonth(year, month) == IF month = 12 THEN <<year + 1, 1>> ELSE <<year, month + 1>>

\* the date one day later (the wall clock passing midnight UTC)
tomorrow(date) ==
    IF date.d < monthlen(date.y, date.m)
    THEN [date EXCEPT !.d = date.d + 1]
    ELSE LET n == nextmonth(date.y, date.m) IN [y |-> n[1], m |-> n[2], d |-> 1]

\* calendar.Calendar().itermonthdates(year, month): the days of the month's
\* weeks, padded with the days of the adjacent months to whole weeks
itermonthdates(year, month) ==
    LET day1 == weekday([y |-> year, m |-> month, d |-> 1])
        ndays == monthlen(year, month)
        days_before == day1 % 7
        days_after == (0 - day1 - ndays) % 7
        p == prevmonth(year, month)
        n == nextmonth(year, month)
        plen == monthlen(p[1], p[2])
    IN  [i \in 1..(days_before + ndays + days_after) |->
            IF i <= days_before
            THEN [y |-> p[1], m |-> p[2], d |-> plen - days_before + i]
            ELSE IF i <= days_before + ndays
            THEN [y |-> year, m |-> month, d |-> i - days_before]
            ELSE [y |-> n[1], m |-> n[2], d |-> i - days_before - ndays]]

(***************************************************************************)
(* Date strings.                                                           *)
(***************************************************************************)
\* date.strftime("%d_%b_%Y"): the month abbreviation in title case
strftime_d_b_Y(date) == [d |-> date.d, b |-> date.m, Y |-> date.y, sep |-> "_", upper |-> FALSE]

\* date.strftime("%d-%b-%Y")
strftime_title(date) == [d |-> date.d, b |-> date.m, Y |-> date.y, sep |-> "-", upper |-> FALSE]

\* str.upper()
upper(s) == [s EXCEPT !.upper = TRUE]

get_current_date(now) == upper(strftime_d_b_Y(now.date))

\* get_formatted_date applied to f"{day}_{month}_{year}": strptime raises
\* ValueError for a day, month or year that is no calendar date
get_formatted_date(day, month, year) ==
    IF is_date(year, month, day)
    THEN [raised |-> None, value |-> upper(strftime_d_b_Y([y |-> year, m |-> month, d |-> day]))]
    ELSE [raised |-> "ValueError", value |-> NoDate]

\* strptime(date, "%d_%b_%Y") succeeds and date == date.upper()
is_valid_date(date) ==
    /\ date.sep = "_"
    /\ is_date(date.Y, date.b, date.d)
    /\ date = upper(date)

(***************************************************************************)
(* The documents: JournalEntry, DayEntryBundle and the journal field of    *)
(* Users, a mapping from date string to DayEntryBundle.                    *)
(***************************************************************************)
JournalEntry(recording_file_name, recording_length_in_seconds, new_id, now) ==
    [id |-> new_id,
     recording_file_name |-> recording_file_name,
     recording_length_in_seconds |-> recording_length_in_seconds,
     transcription |-> None,
     created_at |-> now.t,
     updated_at |-> now.t]

DayEntryBundle(now) ==
    [id |-> strftime_d_b_Y(now.date),
     title |-> strftime_title(now.date),
     summary |-> None,
     processed_entry |-> None,
     entries |-> <<>>,
     created_at |-> now.t,
     updated_at |-> now.t]

EmptyJournal == <<>>

\* the default of JournalManager.__init__'s date parameter, evaluated once,
\* when the def statement runs at import
JournalManager_date_default == get_current_date([date |-> StartDate, t |-> 0])

RECURSIVE sum(_)
sum(xs) == IF xs = <<>> THEN 0 ELSE sum(SubSeq(xs, 1, Len(xs) - 1)) + xs[Len(xs)]

\* next((i for entry i of entries if entry.id == entry_id), None)
RECURSIVE first_match(_, _, _)
first_match(entries, entry_id, i) ==
    IF i > Len(entries) THEN 0
    ELSE IF entries[i].id = entry_id THEN i
    ELSE first_match(entries, entry_id, i + 1)

(***************************************************************************)
(* JournalManager.  self is [user, journal, date]; self.journal is the     *)
(* journal of the loaded user object.  A mutating method returns the       *)
(* journal afterwards, the exception raised (None when it returns) and     *)
(* whether user.save() ran.                                                *)
(***************************************************************************)
\* add_journal_entry with "if today not in self.journal" left out: the day's
\* bundle is replaced by a new one on every call
add_journal_entry_reset(self, now, recording_file_name, recording_seconds, new_id) ==
    LET today == get_current_date(now)
        j1 == [k \in DOMAIN self.journal \cup {today} |->
                  IF k = today THEN DayEntryBundle(now) ELSE self.journal[k]]
        journal_entry == JournalEntry(recording_file_name, recording_seconds, new_id, now)
        j2 == [j1 EXCEPT ![today].entries = Append(@, journal_entry)]
    IN  [journal |-> j2, raised |-> None, saved |-> TRUE,
         key |-> today, index |-> Len(j2[today].entries), entry |-> journal_entry]

\* add_journal_entry putting the new entry in front of the day's entries
add_journal_entry_prepend(self, now, recording_file_name, recording_seconds, new_id) ==
    LET today == get_current_date(now)
        j1 == IF today \in DOMAIN self.journal
              THEN self.journal
              ELSE self.journal @@ (today :> DayEntryBundle(now))
        journal_entry == JournalEntry(recording_file_name, recording_seconds, new_id, now)
        j2 == [j1 EXCEPT ![today].entries = <<journal_entry>> \o @]
    IN  [journal |-> j2, raised |-> None, saved |-> TRUE,
         key |-> today, index |-> 1, entry |-> journal_entry]

\* add_journal_entry writing to the bundle of self.date instead of today's
add_journal_entry_refdate(self, now, recording_file_name, recording_seconds, new_id) ==
    LET today == self.date
        j1 == IF today \in DOMAIN self.journal
              THEN self.journal
              ELSE self.journal @@ (today :> DayEntryBundle(now))
        journal_entry == JournalEntry(recording_file_name, recording_seconds, new_id, now)
        j2 == [j1 EXCEPT ![today].entries = Append(@, journal_entry)]
    IN  [journal |-> j2, raised |-> None, saved |-> TRUE,
         key |-> today, index |-> Len(j2[today].entries), entry |-> journal_entry]

add_journal_entry(self, now, recording_file_name, recording_seconds, new_id) ==
    LET today == get_current_date(now)
        j1 == IF today \in DOMAIN self.journal
              THEN self.journal
              ELSE self.journal @@ (today :> DayEntryBundle(now))
        journal_entry == JournalEntry(recording_file_name, recording_seconds, new_id, now)
        j2 == [j1 EXCEPT ![today].entries = Append(@, journal_entry)]
    IN  [journal |-> j2, raised |-> None, saved |-> TRUE,
         key |-> today, index |-> Len(j2[today].entries), entry |-> journal_entry]

\* add_entry_transcription creating today's bundle when it is absent, as
\* add_journal_entry does, before it looks for the entry
add_entry_transcription_setdefault(self, now, transcription, entry_id) ==
    LET today == get_current_date(now)
        j1 == IF today \in DOMAIN self.journal
              THEN self.journal
              ELSE self.journal @@ (today :> DayEntryBundle(now))
        i == first_match(j1[today].entries, entry_id, 1)
    IN  IF i = 0
        THEN [journal |-> j1, raised |-> "AttributeError", saved |-> FALSE,
              key |-> today, index |-> 0]
        ELSE [journal |-> [j1 EXCEPT ![today].entries[i].transcription = transcription],
              raised |-> None, saved |-> TRUE, key |-> today, index |-> i]

add_entry_transcription(self, now, transcription, entry_id) ==
    LET today == get_current_date(now) IN
    IF today \notin DOMAIN self.journal
    THEN [journal |-> self.journal, raised |-> "KeyError", saved |-> FALSE,
          key |-> today, index |-> 0]
    ELSE LET i == first_match(self.journal[today].entries, entry_id, 1) IN
         IF i = 0
         THEN [journal |-> self.journal, raised |-> "AttributeError", saved |-> FALSE,
               key |-> today, index |-> 0]
         ELSE [journal |-> [self.journal EXCEPT ![today].entries[i].transcription = transcription],
               raised |-> None, saved |-> TRUE, key |-> today, index |-> i]

get_progress_time(self, date_requested) ==
    LET date == IF date_requested = NoDate THEN self.date ELSE date_requested IN
    IF date \notin DOMAIN self.journal
    THEN 0
    ELSE sum([i \in 1..Len(self.journal[date].entries) |->
                 self.journal[date].entries[i].recording_length_in_seconds])

\* get_streaks_for_month without "if day.month == month"
get_streaks_for_month_nofilter(self, month, year) ==
    LET days == itermonthdates(year, month)
    IN  [i \in 1..Len(days) |->
            [date |-> strftime_d_b_Y(days[i]),
             progress_time |-> get_progress_time(self, upper(strftime_d_b_Y(days[i])))]]

get_streaks_for_month(self, month, year) ==
    LET in_month(day) == day.m = month
        days == SelectSeq(itermonthdates(year, month), in_month)
    IN  [i \in 1..Len(days) |->
            [date |-> strftime_d_b_Y(days[i]),
             progress_time |-> get_progress_time(self, upper(strftime_d_b_Y(days[i])))]]

get_journal_entries_for_day(self, date_requested) ==
    LET date == IF date_requested = NoDate THEN self.date ELSE date_requested IN
    IF date \notin DOMAIN self.journal
    THEN <<>>
    ELSE [i \in 1..Len(self.journal[date].entries) |->
             self.journal[date].entries[i].transcription]

\* get_all_journals leaving out the entries without transcription
get_all_journals_skip_none(self) ==
    {[id |-> self.journal[day].id,
      date |-> day,
      transcripts |->
          LET has_text(e) == e.transcription # None
              es == SelectSeq(self.journal[day].entries, has_text)
          IN [i \in 1..Len(es) |-> es[i].transcription]]
        : day \in DOMAIN self.journal}

\* one record per item of the mapping; the order of the items is not modelled
get_all_journals(self) ==
    {[id |-> self.journal[day].id,
      date |-> day,
      transcripts |-> [i \in 1..Len(self.journal[day].entries) |->
                          self.journal[day].entries[i].transcription]]
        : day \in DOMAIN self.journal}

\* delete_day_bundle clearing the whole mapping
delete_day_bundle_clear(self, date_requested) ==
    IF date_requested \notin DOMAIN self.journal
    THEN [journal |-> self.journal, raised |-> "KeyError", saved |-> FALSE]
    ELSE [journal |-> EmptyJournal, raised |-> None, saved |-> TRUE]

delete_day_bundle(self, date_requested) ==
    IF date_requested \notin DOMAIN self.journal
    THEN [journal |-> self.journal, raised |-> "KeyError", saved |-> FALSE]
    ELSE [journal |-> [k \in DOMAIN self.journal \ {date_requested} |-> self.journal[k]],
          raised |-> None, saved |-> TRUE]

(***************************************************************************)
(* State.  utcnow is the wall clock (date and instant); db[u] is the       *)
(* stored Users document of u; mgr[h] is a request in flight: the user     *)
(* object it loaded, the JournalManager built on it and the entry its last *)
(* add_journal_entry returned; lastOp describes the last step taken.       *)
(***************************************************************************)
NoEntry == [key |-> NoDate, index |-> 0, id |-> None]

\* before is the stored journal when upload_audio was entered and length the
\* form field length_in_seconds it was called with
Free == [state |-> "free", user |-> None, journal |-> EmptyJournal,
         date |-> NoDate, this_entry |-> NoEntry,
         before |-> EmptyJournal, length |-> None]

\* the default lifetime of a token, in minutes
token_expire_minutes == 30

\* no token
NoToken == [sub |-> None, exp |-> 0]

\* AuthenticationService.create_token: the subject and the expiry, encoded
create_token(email, now) == [sub |-> email, exp |-> now.t + token_expire_minutes]

Op(op, h, raised, key, id, secs) ==
    [op |-> op, h |-> h, raised |-> raised, key |-> key, id |-> id, secs |-> secs,
     text |-> None, time |-> 0, list |-> <<>>, status |-> 0,
     user |-> None, token |-> NoToken]

\* the date strings a caller passes: the formatted path parameters and one
\* string that was not upper-cased
DateStrings ==
    {get_formatted_date(i[1], i[2], i[3]).value :
        i \in {x \in DateInputs : get_formatted_date(x[1], x[2], x[3]).raised = None}}
    \cup {strftime_d_b_Y(StartDate)}

entry_count(journal) ==
    LET keys == DOMAIN journal
        RECURSIVE count(_)
        count(S) == IF S = {} THEN 0
                    ELSE LET k == CHOOSE x \in S : TRUE
                         IN Len(journal[k].entries) + count(S \ {k})
    IN count(keys)

\* werkzeug's generate_password_hash(password, method='scrypt') and
\* check_password_hash(pwhash, password)
generate_password_hash(password) == [method |-> "scrypt", of |-> password]

check_password_hash(pwhash, password) == pwhash = generate_password_hash(password)

\* no document with that email in the collection
NoUser == [registered |-> FALSE, hashed_password |-> generate_password_hash(None),
           journal |-> EmptyJournal, updated_at |-> 0]

\* Users(email=..., first_name=..., last_name=...) with the password set
NewUser(password, now) ==
    [registered |-> TRUE, hashed_password |-> generate_password_hash(password),
     journal |-> EmptyJournal, updated_at |-> now.t]

\* UserManager.find_user_by_email: the email of the document found, or None
find_user_by_email(email) == IF db[email].registered THEN email ELSE None

\* AuthenticationService.verify_password
verify_password(entered_password, database_password) ==
    check_password_hash(database_password, entered_password)

\* Users.save() writing updated_at and not the journal
save_without_journal(user_doc, journal, now) == [user_doc EXCEPT !.updated_at = now.t]

\* Users.save(): the whole document is written
save(user_doc, journal, now) == [user_doc EXCEPT !.journal = journal, !.updated_at = now.t]

Init ==
    /\ utcnow = [date |-> StartDate, t |-> 0]
    /\ db = [u \in AllUsers |->
                IF u \in Users THEN NewUser("secret", utcnow) ELSE NoUser]
    /\ mgr = [h \in AllHandles |-> Free]
    /\ lastOp = Op("init", 0, None, NoDate, None, 0)

\* time passes within the day
Tick ==
    /\ utcnow.t < MaxTime
    /\ utcnow' = [utcnow EXCEPT !.t = @ + 1]
    /\ lastOp' = Op("tick", 0, None, NoDate, None, 0)
    /\ UNCHANGED <<db, mgr>>

\* time passes midnight UTC
Midnight ==
    /\ utcnow.t < MaxTime
    /\ utcnow' = [date |-> tomorrow(utcnow.date), t |-> utcnow.t + 1]
    /\ lastOp' = Op("midnight", 0, None, NoDate, None, 0)
    /\ UNCHANGED <<db, mgr>>

\* the request's dependency: the user object is loaded from the database
get_current_user(h, u) ==
    /\ mgr[h].state = "free"
    /\ IF db[u].registered
       THEN /\ mgr' = [mgr EXCEPT ![h] = [Free EXCEPT !.state = "loaded", !.user = u,
                                                       !.journal = db[u].journal]]
            /\ lastOp' = Op("get_current_user", h, None, NoDate, None, 0)
       ELSE /\ mgr' = mgr
            /\ lastOp' = [Op("get_current_user", h, "HTTPException", NoDate, None, 0)
                             EXCEPT !.status = 401]
    /\ UNCHANGED <<utcnow, db>>

\* JournalManager(current_user)
JournalManager_init_default(h) ==
    /\ mgr[h].state = "loaded"
    /\ mgr' = [mgr EXCEPT ![h].state = "ready", ![h].date = JournalManager_date_default]
    /\ lastOp' = Op("JournalManager()", h, None, NoDate, None, 0)
    /\ UNCHANGED <<utcnow, db>>

\* JournalManager(current_user, date)
JournalManager_init(h, date) ==
    /\ mgr[h].state = "loaded"
    /\ IF is_valid_date(date)
       THEN /\ mgr' = [mgr EXCEPT ![h].state = "ready", ![h].date = date]
            /\ lastOp' = Op("JournalManager(date)", h, None, date, None, 0)
       ELSE /\ mgr' = mgr
            /\ lastOp' = Op("JournalManager(date)", h, "ValueError", date, None, 0)
    /\ UNCHANGED <<utcnow, db>>

\* add_journal_entry on a journal dictionary that all user documents share
AddJournalEntry_shared_journal(h, recording_file_name, recording_seconds, new_id) ==
    /\ mgr[h].state = "ready"
    /\ entry_count(mgr[h].journal) < MaxEntries
    /\ LET r == add_journal_entry(mgr[h], utcnow, recording_file_name, recording_seconds, new_id) IN
       /\ mgr' = [mgr EXCEPT ![h].journal = r.journal,
                             ![h].this_entry = [key |-> r.key, index |-> r.index, id |-> r.entry.id]]
       /\ db' = [u \in AllUsers |->
                   IF u = mgr[h].user THEN save(db[u], r.journal, utcnow)
                   ELSE [db[u] EXCEPT !.journal = r.journal]]
       /\ lastOp' = Op("add_journal_entry", h, r.raised, r.key, r.entry.id, recording_seconds)
    /\ UNCHANGED utcnow

AddJournalEntry(h, recording_file_name, recording_seconds, new_id) ==
    /\ mgr[h].state = "ready"
    /\ entry_count(mgr[h].journal) < MaxEntries
    /\ LET r == add_journal_entry(mgr[h], utcnow, recording_file_name, recording_seconds, new_id) IN
       /\ mgr' = [mgr EXCEPT ![h].journal = r.journal,
                             ![h].this_entry = [key |-> r.key, index |-> r.index, id |-> r.entry.id]]
       /\ db' = [db EXCEPT ![mgr[h].user] = save(@, r.journal, utcnow)]
       /\ lastOp' = Op("add_journal_entry", h, r.raised, r.key, r.entry.id, recording_seconds)
    /\ UNCHANGED utcnow

AddEntryTranscription(h, transcription, entry_id) ==
    /\ mgr[h].state = "ready"
    /\ LET r == add_entry_transcription(mgr[h], utcnow, transcription, entry_id) IN
       /\ mgr' = [mgr EXCEPT ![h].journal = r.journal]
       /\ db' = IF r.saved THEN [db EXCEPT ![mgr[h].user] = save(@, r.journal, utcnow)] ELSE db
       /\ lastOp' = [Op("add_entry_transcription", h, r.raised, r.key, entry_id, 0)
                        EXCEPT !.text = transcription, !.time = r.index]
    /\ UNCHANGED utcnow

DeleteDayBundle(h, date_requested) ==
    /\ mgr[h].state = "ready"
    /\ LET r == delete_day_bundle(mgr[h], date_requested) IN
       /\ mgr' = [mgr EXCEPT ![h].journal = r.journal]
       /\ db' = IF r.saved THEN [db EXCEPT ![mgr[h].user] = save(@, r.journal, utcnow)] ELSE db
       /\ lastOp' = Op("delete_day_bundle", h, r.raised, date_requested, None, 0)
    /\ UNCHANGED utcnow

GetProgressTime(h, date_requested) ==
    /\ mgr[h].state = "ready"
    /\ lastOp' = [Op("get_progress_time", h, None, date_requested, None, 0)
                     EXCEPT !.time = get_progress_time(mgr[h], date_requested)]
    /\ UNCHANGED <<utcnow, db, mgr>>

GetJournalEntriesForDay(h, date_requested) ==
    /\ mgr[h].state = "ready"
    /\ lastOp' = [Op("get_journal_entries_for_day", h, None, date_requested, None, 0)
                     EXCEPT !.list = get_journal_entries_for_day(mgr[h], date_requested)]
    /\ UNCHANGED <<utcnow, db, mgr>>

GetStreaksForMonth(h, month, year) ==
    /\ mgr[h].state = "ready"
    /\ lastOp' = [Op("get_streaks_for_month", h, None,
                     [d |-> 0, b |-> month, Y |-> year, sep |-> "", upper |-> FALSE], None, 0)
                     EXCEPT !.list = get_streaks_for_month(mgr[h], month, year)]
    /\ UNCHANGED <<utcnow, db, mgr>>

GetAllJournals(h) ==
    /\ mgr[h].state = "ready"
    /\ lastOp' = [Op("get_all_journals", h, None, NoDate, None, 0)
                     EXCEPT !.list = get_all_journals(mgr[h])]
    /\ UNCHANGED <<utcnow, db, mgr>>

\* the request ends and its objects are dropped
Release(h) ==
    /\ mgr[h].state # "free"
    /\ mgr' = [mgr EXCEPT ![h] = Free]
    /\ lastOp' = Op("release", h, None, NoDate, None, 0)
    /\ UNCHANGED <<utcnow, db>>

\* audio.content_type.startswith('audio/')
startswith_audio(content_type) == content_type.type = "audio"

\* float(length_in_seconds)
float(length_in_seconds) ==
    CASE length_in_seconds = "3" -> [raised |-> None, value |-> 3]
      [] length_in_seconds = "-2" -> [raised |-> None, value |-> -2]
      [] OTHER -> [raised |-> "ValueError", value |-> 0]

\* the response of upload_audio to an exception raised inside its try block:
\* every exception, an HTTPException included, is answered with status 500
upload_audio_except(h, detail) ==
    [Op("upload_audio", h, "HTTPException", NoDate, mgr[h].this_entry.id, 0)
        EXCEPT !.status = 500, !.text = detail]

\* POST /upload/ up to the return of add_journal_entry: the checks, the upload
\* to S3 and the append
upload_audio_begin(h, content_type, length_in_seconds, s3_ok, new_id) ==
    /\ mgr[h].state = "loaded"
    /\ entry_count(mgr[h].journal) < MaxEntries
    /\ LET before == db[mgr[h].user].journal
           seconds == float(length_in_seconds)
           failed(detail) ==
               /\ mgr' = [mgr EXCEPT ![h].state = "responded", ![h].before = before,
                                     ![h].length = length_in_seconds]
               /\ db' = db
               /\ lastOp' = upload_audio_except(h, detail)
       IN  IF ~startswith_audio(content_type) THEN failed("Invalid file type")
           ELSE IF ~s3_ok THEN failed("Upload failed")
           ELSE IF seconds.raised # None THEN failed(seconds.raised)
           ELSE LET self == [mgr[h] EXCEPT !.date = JournalManager_date_default]
                    r == add_journal_entry(self, utcnow, "rec.webm", seconds.value, new_id)
                IN  /\ mgr' = [mgr EXCEPT ![h] =
                                  [self EXCEPT !.state = "transcribing",
                                               !.journal = r.journal,
                                               !.this_entry = [key |-> r.key, index |-> r.index,
                                                               id |-> r.entry.id],
                                               !.before = before,
                                               !.length = length_in_seconds]]
                    /\ db' = [db EXCEPT ![mgr[h].user] = save(@, r.journal, utcnow)]
                    /\ lastOp' = Op("add_journal_entry", h, r.raised, r.key, r.entry.id,
                                    seconds.value)
    /\ UNCHANGED utcnow

\* upload_audio removing the appended entry again when a later step fails
upload_audio_finish_rollback(h, transcription_object) ==
    /\ mgr[h].state = "transcribing"
    /\ IF transcription_object.raised # None
       THEN /\ mgr' = [mgr EXCEPT ![h].state = "responded", ![h].journal = mgr[h].before]
            /\ db' = [db EXCEPT ![mgr[h].user] = save(@, mgr[h].before, utcnow)]
            /\ lastOp' = upload_audio_except(h, transcription_object.raised)
       ELSE LET r == add_entry_transcription(mgr[h], utcnow, transcription_object.text,
                                            mgr[h].this_entry.id)
            IN  IF r.raised # None
                THEN /\ mgr' = [mgr EXCEPT ![h].state = "responded",
                                           ![h].journal = mgr[h].before]
                     /\ db' = [db EXCEPT ![mgr[h].user] = save(@, mgr[h].before, utcnow)]
                     /\ lastOp' = upload_audio_except(h, r.raised)
                ELSE /\ mgr' = [mgr EXCEPT ![h].state = "responded", ![h].journal = r.journal]
                     /\ db' = [db EXCEPT ![mgr[h].user] = save(@, r.journal, utcnow)]
                     /\ lastOp' = [Op("upload_audio", h, None, r.key, mgr[h].this_entry.id, 0)
                                      EXCEPT !.status = 200, !.text = transcription_object.text,
                                             !.time = r.index]
    /\ UNCHANGED utcnow

\* POST /upload/ from the return of add_journal_entry: the transcription call,
\* add_entry_transcription and the response
upload_audio_finish(h, transcription_object) ==
    /\ mgr[h].state = "transcribing"
    /\ IF transcription_object.raised # None
       THEN /\ mgr' = [mgr EXCEPT ![h].state = "responded"]
            /\ db' = db
            /\ lastOp' = upload_audio_except(h, transcription_object.raised)
       ELSE LET r == add_entry_transcription(mgr[h], utcnow, transcription_object.text,
                                            mgr[h].this_entry.id)
            IN  /\ mgr' = [mgr EXCEPT ![h].state = "responded", ![h].journal = r.journal]
                /\ db' = IF r.saved THEN [db EXCEPT ![mgr[h].user] = save(@, r.journal, utcnow)]
                         ELSE db
                /\ lastOp' = IF r.raised # None
                             THEN upload_audio_except(h, r.raised)
                             ELSE [Op("upload_audio", h, None, r.key, mgr[h].this_entry.id, 0)
                                      EXCEPT !.status = 200, !.text = transcription_object.text,
                                             !.time = r.index]
    /\ UNCHANGED utcnow

\* POST /signup/
signup(email, password) ==
    /\ IF find_user_by_email(email) # None
       THEN /\ db' = db
            /\ lastOp' = [Op("signup", 0, "HTTPException", NoDate, None, 0)
                             EXCEPT !.status = 400, !.user = email]
       ELSE /\ db' = [db EXCEPT ![email] = NewUser(password, utcnow)]
            /\ lastOp' = [Op("signup", 0, None, NoDate, None, 0)
                             EXCEPT !.status = 201, !.user = email,
                                    !.token = create_token(email, utcnow)]
    /\ UNCHANGED <<utcnow, mgr>>

\* verify_password accepting every password
login_any_password(username, password) ==
    /\ LET user == find_user_by_email(username) IN
       IF user = None
       THEN lastOp' = [Op("login", 0, "HTTPException", NoDate, None, 0)
                          EXCEPT !.status = 401, !.user = username, !.text = password]
       ELSE lastOp' = [Op("login", 0, None, NoDate, None, 0)
                          EXCEPT !.status = 200, !.user = username, !.text = password,
                                 !.token = create_token(username, utcnow)]
    /\ UNCHANGED <<utcnow, db, mgr>>

\* POST /login/
login(username, password) ==
    /\ LET user == find_user_by_email(username) IN
       IF user = None
       THEN lastOp' = [Op("login", 0, "HTTPException", NoDate, None, 0)
                          EXCEPT !.status = 401, !.user = username, !.text = password]
       ELSE IF ~verify_password(password, db[user].hashed_password)
       THEN lastOp' = [Op("login", 0, "HTTPException", NoDate, None, 0)
                          EXCEPT !.status = 401, !.user = username, !.text = password]
       ELSE lastOp' = [Op("login", 0, None, NoDate, None, 0)
                          EXCEPT !.status = 200, !.user = username, !.text = password,
                                 !.token = create_token(username, utcnow)]
    /\ UNCHANGED <<utcnow, db, mgr>>

Next ==
    \/ Tick
    \/ Midnight
    \/ \E h \in Handles, u \in Users : get_current_user(h, u)
    \/ \E h \in Handles : JournalManager_init_default(h)
    \/ \E h \in Handles, date \in DateStrings : JournalManager_init(h, date)
    \/ \E h \in Handles, f \in FileNames, s \in Seconds, i \in Ids : AddJournalEntry(h, f, s, i)
    \/ \E h \in Handles, t \in Texts, i \in Ids : AddEntryTranscription(h, t, i)
    \/ \E h \in Handles, date \in DateStrings : DeleteDayBundle(h, date)
    \/ \E h \in Handles, date \in {get_current_date(utcnow), NoDate} : GetProgressTime(h, date)
    \/ \E h \in Handles, date \in {get_current_date(utcnow), NoDate} : GetJournalEntriesForDay(h, date)
    \/ \E h \in Handles, my \in StreakInputs : GetStreaksForMonth(h, my[1], my[2])
    \/ \E h \in Handles : Release(h)

Spec == Init /\ [][Next]_vars

\* the operations that decide the month's streaks, the streaks requested for
\* every month of Years; entry ids play no part in them and one id is used
NextStreaks ==
    \/ Midnight
    \/ \E h \in Handles, u \in Users : get_current_user(h, u)
    \/ \E h \in Handles : JournalManager_init_default(h)
    \/ \E h \in Handles, f \in FileNames, s \in Seconds : AddJournalEntry(h, f, s, "A1B2C3D4E")
    \/ \E h \in Handles, date \in DateStrings : DeleteDayBundle(h, date)
    \/ \E h \in Handles, month \in Months, year \in Years : GetStreaksForMonth(h, month, year)

SpecStreaks == Init /\ [][NextStreaks]_vars

\* the operations that decide the listing of all journals, with an empty
\* transcription among the texts
NextJournals ==
    \/ Midnight
    \/ \E h \in Handles, u \in Users : get_current_user(h, u)
    \/ \E h \in Handles : JournalManager_init_default(h)
    \/ \E h \in Handles, f \in FileNames, i \in Ids : AddJournalEntry(h, f, 3, i)
    \/ \E h \in Handles, t \in Texts \cup {""}, i \in Ids : AddEntryTranscription(h, t, i)
    \/ \E h \in Handles, date \in DateStrings : DeleteDayBundle(h, date)
    \/ \E h \in Handles : GetAllJournals(h)

SpecJournals == Init /\ [][NextJournals]_vars

\* the mutating requests of one user, one in flight at a time: each loads the
\* user, appends, transcribes or deletes, and ends before the next one loads
NextStore ==
    \/ Tick
    \/ Midnight
    \/ \E h \in Handles, u \in Users : get_current_user(h, u)
    \/ \E h \in Handles : JournalManager_init_default(h)
    \/ \E h \in Handles, f \in FileNames, i \in Ids : AddJournalEntry(h, f, 3, i)
    \/ \E h \in Handles, t \in Texts, i \in Ids : AddEntryTranscription(h, t, i)
    \/ \E h \in Handles, date \in DateStrings : DeleteDayBundle(h, date)
    \/ \E h \in Handles : Release(h)

SpecStore == Init /\ [][NextStore]_vars

\* the request handle h serves user Session[h]
Session == 1 :> "u1" @@ 2 :> "u2"

\* the requests of two users interleaved within one day, the second user
\* signing up first
NextUsers ==
    \/ \E u \in AllUsers : signup(u, "secret")
    \/ \E h \in AllHandles : get_current_user(h, Session[h])
    \/ \E h \in AllHandles : JournalManager_init_default(h)
    \/ \E h \in AllHandles, f \in FileNames : AddJournalEntry(h, f, 3, "A1B2C3D4E")
    \/ \E h \in AllHandles, t \in Texts : AddEntryTranscription(h, t, "A1B2C3D4E")
    \/ \E h \in AllHandles : DeleteDayBundle(h, get_current_date(utcnow))
    \/ \E h \in AllHandles : GetProgressTime(h, get_current_date(utcnow))
    \/ \E h \in AllHandles : GetJournalEntriesForDay(h, get_current_date(utcnow))
    \/ \E h \in AllHandles, my \in StreakInputs : GetStreaksForMonth(h, my[1], my[2])
    \/ \E h \in AllHandles : GetAllJournals(h)
    \/ \E h \in AllHandles : Release(h)

SpecUsers == Init /\ [][NextUsers]_vars

\* sign-ups and logins of both users with both passwords, between the
\* authenticated requests that load a user
NextAuth ==
    \/ Tick
    \/ \E u \in AllUsers, p \in Passwords : signup(u, p)
    \/ \E u \in AllUsers, p \in Passwords : login(u, p)
    \/ \E h \in AllHandles : get_current_user(h, Session[h])
    \/ \E h \in AllHandles : Release(h)

SpecAuth == Init /\ [][NextAuth]_vars

\* the content types and length fields of upload requests, and the outcomes
\* of the transcription call
ContentTypes == {[type |-> "audio", subtype |-> "webm"], [type |-> "text", subtype |-> "plain"]}
Lengths == {"3", "abc"}
TranscriptionObjects == {[raised |-> None, text |-> "hello"],
                         [raised |-> "APIError", text |-> None]}

\* upload requests of one user, one at a time, time passing while the
\* transcription call is out
NextUpload ==
    \/ Tick
    \/ Midnight
    \/ \E h \in Handles, u \in Users : get_current_user(h, u)
    \/ \E h \in Handles, c \in ContentTypes, l \in Lengths, ok \in BOOLEAN, i \in Ids :
          upload_audio_begin(h, c, l, ok, i)
    \/ \E h \in Handles, o \in TranscriptionObjects : upload_audio_finish(h, o)
    \/ \E h \in Handles : Release(h)

SpecUpload == Init /\ [][NextUpload]_vars

(***************************************************************************)
(* Properties.                                                             *)
(***************************************************************************)
\* the key of the current date
TodayKey == get_current_date(utcnow)

\* the sum of the recording lengths of the bundle stored at key, 0 without one
DaySeconds(journal, key) ==
    IF key \in DOMAIN journal
    THEN LET e == journal[key].entries
             RECURSIVE total(_)
             total(n) == IF n = 0 THEN 0
                         ELSE total(n - 1) + e[n].recording_length_in_seconds
         IN total(Len(e))
    ELSE 0

\* C1: every append adds its recording_seconds to the progress time of
\* today's key: on a day without a bundle progress_time becomes the appended
\* duration d, and a further append of duration e on that day makes it d + e.
C1_ProgressIsSumOfAppends ==
    [][lastOp'.op = "add_journal_entry" =>
        LET h == lastOp'.h IN
        /\ lastOp'.raised = None
        /\ get_progress_time(mgr'[h], TodayKey)
              = get_progress_time(mgr[h], TodayKey) + lastOp'.secs
        /\ (TodayKey \notin DOMAIN mgr[h].journal
              => get_progress_time(mgr'[h], TodayKey) = lastOp'.secs)]_vars

\* a second entry has just been appended to today's bundle
C1_Witness ==
    /\ lastOp.op = "add_journal_entry"
    /\ TodayKey \in DOMAIN mgr[lastOp.h].journal
    /\ Len(mgr[lastOp.h].journal[TodayKey].entries) = 2
    /\ get_progress_time(mgr[lastOp.h], TodayKey) = 6

\* C2: a JournalManager built without a date has the current date's key as
\* its date, whenever it is built, so progress_time() and
\* journal_entries_for_day() without argument read today's bundle.
C2_DefaultDateIsToday ==
    lastOp.op = "JournalManager()" =>
        LET h == lastOp.h IN
        /\ mgr[h].date = TodayKey
        /\ get_progress_time(mgr[h], NoDate) = DaySeconds(mgr[h].journal, TodayKey)
        /\ get_journal_entries_for_day(mgr[h], NoDate)
              = get_journal_entries_for_day(mgr[h], TodayKey)

\* C3: every bundle of a stored journal has the key it is stored under as
\* its id.
C3_KeyEqualsId ==
    \A u \in Users : \A k \in DOMAIN db[u].journal : db[u].journal[k].id = k

\* C4: delete_day for a key without a bundle returns without an error and
\* leaves the store as it is.
C4_DeleteAbsentSucceeds ==
    [][(lastOp'.op = "delete_day_bundle"
          /\ lastOp'.key \notin DOMAIN mgr[lastOp'.h].journal) =>
        /\ lastOp'.raised = None
        /\ mgr'[lastOp'.h].journal = mgr[lastOp'.h].journal
        /\ db' = db]_vars

\* C5: delete_day for a key with a bundle removes that key and nothing else:
\* the key is gone from all_journals(), its progress_time is 0, every other
\* bundle is as it was, and the result is what is stored.
C5_DeleteRemovesOnlyThatDay ==
    [][(lastOp'.op = "delete_day_bundle"
          /\ lastOp'.key \in DOMAIN mgr[lastOp'.h].journal) =>
        LET h == lastOp'.h
            k == lastOp'.key
            before == mgr[h].journal
            after == mgr'[h].journal
        IN  /\ lastOp'.raised = None
            /\ DOMAIN after = DOMAIN before \ {k}
            /\ \A x \in DOMAIN after : after[x] = before[x]
            /\ db'[mgr[h].user].journal = after
            /\ get_progress_time(mgr'[h], k) = 0
            /\ \A r \in get_all_journals(mgr'[h]) : r.date # k]_vars

\* a day has just been deleted while another day's bundle stays
C5_Witness ==
    /\ lastOp.op = "delete_day_bundle"
    /\ lastOp.raised = None
    /\ DOMAIN mgr[lastOp.h].journal # {}
    /\ db[mgr[lastOp.h].user].journal = mgr[lastOp.h].journal

\* the number of days of a month of the calendar
CalendarDays(month, year) ==
    IF month \in {4, 6, 9, 11} THEN 30
    ELSE IF month # 2 THEN 31
    ELSE IF year % 400 = 0 \/ (year % 4 = 0 /\ year % 100 # 0) THEN 29
    ELSE 28

\* C6: month_streaks(month, year) has one record per calendar day of the
\* month, in ascending day order, each with the sum of the recording lengths
\* of the bundle at that day's upper-cased key, 0 without a bundle.
C6_StreaksCoverTheMonth ==
    lastOp.op = "get_streaks_for_month" =>
        LET month == lastOp.key.b
            year == lastOp.key.Y
            streaks == lastOp.list
            journal == mgr[lastOp.h].journal
        IN  /\ Len(streaks) = CalendarDays(month, year)
            /\ \A i \in 1..Len(streaks) :
                  /\ streaks[i].date.d = i
                  /\ streaks[i].date.b = month
                  /\ streaks[i].date.Y = year
                  /\ streaks[i].progress_time
                        = DaySeconds(journal, [d |-> i, b |-> month, Y |-> year,
                                               sep |-> "_", upper |-> TRUE])

\* the streaks of February 2024 with a recording on the 28th and on the 29th
C6_Witness ==
    /\ lastOp.op = "get_streaks_for_month"
    /\ lastOp.key.b = 2
    /\ lastOp.key.Y = 2024
    /\ Len(lastOp.list) = 29
    /\ lastOp.list[28].progress_time # 0
    /\ lastOp.list[29].progress_time # 0
    /\ lastOp.list[27].progress_time = 0

\* the entry that the request's last add_journal_entry returned is where
\* it was put
ThisEntryInPlace(m) ==
    /\ m.this_entry.key \in DOMAIN m.journal
    /\ m.this_entry.index \in 1..Len(m.journal[m.this_entry.key].entries)
    /\ m.journal[m.this_entry.key].entries[m.this_entry.index].id = m.this_entry.id

\* C7: set_transcription with the id of the entry that append_entry returned
\* succeeds, and the transcription is then at that entry's position in
\* journal_entries_for_day of the day the entry was appended to.
C7_TranscribeAppendedEntry ==
    [][(/\ lastOp'.op = "add_entry_transcription"
        /\ ThisEntryInPlace(mgr[lastOp'.h])
        /\ lastOp'.id = mgr[lastOp'.h].this_entry.id) =>
        LET h == lastOp'.h
            e == mgr[h].this_entry
        IN  /\ lastOp'.raised = None
            /\ get_journal_entries_for_day(mgr'[h], e.key)[e.index] = lastOp'.text]_vars

\* the exceptions add_entry_transcription fails with when it finds no entry
EntryNotFoundError == {"KeyError", "AttributeError"}

\* C8: set_transcription fails, changing and saving nothing, when today's
\* bundle is absent or holds no entry with the given id.
C8_TranscribeUnknownFails ==
    [][(/\ lastOp'.op = "add_entry_transcription"
        /\ \/ TodayKey \notin DOMAIN mgr[lastOp'.h].journal
           \/ \A i \in 1..Len(mgr[lastOp'.h].journal[TodayKey].entries) :
                 mgr[lastOp'.h].journal[TodayKey].entries[i].id # lastOp'.id) =>
        /\ lastOp'.raised \in EntryNotFoundError
        /\ mgr'[lastOp'.h].journal = mgr[lastOp'.h].journal
        /\ db' = db]_vars

\* set_transcription has just failed for an id that no entry of today's
\* bundle has, the bundle holding an entry
C8_Witness ==
    /\ lastOp.op = "add_entry_transcription"
    /\ lastOp.raised = "AttributeError"
    /\ TodayKey \in DOMAIN mgr[lastOp.h].journal
    /\ Len(mgr[lastOp.h].journal[TodayKey].entries) > 0
    /\ db[mgr[lastOp.h].user].journal = mgr[lastOp.h].journal

\* C9: append_entry with a negative duration fails and stores nothing, so
\* no stored entry has a negative recording length and no progress time is
\* negative.
C9_NoNegativeDuration ==
    /\ (lastOp.op = "add_journal_entry" /\ lastOp.secs < 0) => lastOp.raised # None
    /\ \A u \in Users : \A k \in DOMAIN db[u].journal :
          /\ \A i \in 1..Len(db[u].journal[k].entries) :
                db[u].journal[k].entries[i].recording_length_in_seconds >= 0
          /\ DaySeconds(db[u].journal, k) >= 0

\* C10: append_entry writes to the bundle of the current date, whatever the
\* manager's date is: it creates the bundle when absent, puts the new entry
\* at the end of its entries and leaves the bundles of all other keys alone.
C10_AppendTargetsToday ==
    [][lastOp'.op = "add_journal_entry" =>
        LET h == lastOp'.h
            before == mgr[h].journal
            after == mgr'[h].journal
            old == IF TodayKey \in DOMAIN before THEN before[TodayKey].entries ELSE <<>>
        IN  /\ lastOp'.key = TodayKey
            /\ DOMAIN after = DOMAIN before \cup {TodayKey}
            /\ Len(after[TodayKey].entries) = Len(old) + 1
            /\ SubSeq(after[TodayKey].entries, 1, Len(old)) = old
            /\ after[TodayKey].entries[Len(old) + 1].id = lastOp'.id
            /\ after[TodayKey].entries[Len(old) + 1].recording_length_in_seconds = lastOp'.secs
            /\ \A k \in DOMAIN before \ {TodayKey} : after[k] = before[k]
            /\ db'[mgr[h].user].journal = after]_vars

\* an entry has just been appended by a manager whose date is another day
\* that has a bundle
C10_Witness ==
    /\ lastOp.op = "add_journal_entry"
    /\ mgr[lastOp.h].date # lastOp.key
    /\ mgr[lastOp.h].date \in DOMAIN mgr[lastOp.h].journal
    /\ lastOp.key \in DOMAIN mgr[lastOp.h].journal

\* C11: all_journals() has exactly one record per stored bundle, and the
\* record's transcripts are the transcriptions of the bundle's entries in
\* their order, one per entry, None for an entry without transcription; two
\* appends on one day without set_transcription give one record with two
\* None elements.
C11_AllJournalsListsEveryEntry ==
    lastOp.op = "get_all_journals" =>
        LET journal == mgr[lastOp.h].journal
            records == lastOp.list
        IN  /\ Cardinality(records) = Cardinality(DOMAIN journal)
            /\ \A k \in DOMAIN journal :
                  \E r \in records :
                     /\ r.date = k
                     /\ Len(r.transcripts) = Len(journal[k].entries)
                     /\ \A i \in 1..Len(r.transcripts) :
                           r.transcripts[i] = journal[k].entries[i].transcription

\* all journals listed with a bundle of two entries, the first without
\* transcription and the second with the empty string as transcription
C11_Witness ==
    /\ lastOp.op = "get_all_journals"
    /\ \E r \in lastOp.list :
          /\ Len(r.transcripts) = 2
          /\ r.transcripts[1] = None
          /\ r.transcripts[2] = ""

\* C12: with one request per user in flight at a time no completed mutation
\* is lost: after every step the stored journal holds every entry it held
\* before, unless its day was deleted by the step, with the transcription it
\* had or the one the step set, and it holds what the step appended, set or
\* deleted.
C12_NoLostMutation ==
    [][\A u \in Users :
        LET old == db[u].journal
            new == db'[u].journal
            op == lastOp'.op
            ok == lastOp'.raised = None
            k0 == lastOp'.key
            deleted == IF op = "delete_day_bundle" /\ ok THEN {k0} ELSE {}
        IN  /\ \A k \in DOMAIN old \ deleted :
                  /\ k \in DOMAIN new
                  /\ Len(new[k].entries) >= Len(old[k].entries)
                  /\ \A i \in 1..Len(old[k].entries) :
                        /\ new[k].entries[i].id = old[k].entries[i].id
                        /\ new[k].entries[i].recording_file_name
                              = old[k].entries[i].recording_file_name
                        /\ new[k].entries[i].recording_length_in_seconds
                              = old[k].entries[i].recording_length_in_seconds
                        /\ \/ new[k].entries[i].transcription = old[k].entries[i].transcription
                           \/ /\ op = "add_entry_transcription" /\ ok
                              /\ k = k0 /\ i = lastOp'.time
            /\ op = "add_journal_entry" =>
                  /\ k0 \in DOMAIN new
                  /\ Len(new[k0].entries) > 0
                  /\ new[k0].entries[Len(new[k0].entries)].id = lastOp'.id
                  /\ new[k0].entries[Len(new[k0].entries)].transcription = None
            /\ (op = "add_entry_transcription" /\ ok) =>
                  /\ k0 \in DOMAIN new
                  /\ lastOp'.time \in 1..Len(new[k0].entries)
                  /\ new[k0].entries[lastOp'.time].transcription = lastOp'.text
            /\ (op = "delete_day_bundle" /\ ok) => k0 \notin DOMAIN new]_vars

\* a transcription has just been stored, a second entry being stored with it
C12_Witness ==
    /\ lastOp.op = "add_entry_transcription"
    /\ lastOp.raised = None
    /\ entry_count(db[mgr[lastOp.h].user].journal) = 2
    /\ db[mgr[lastOp.h].user].journal[lastOp.key].entries[lastOp.time].transcription
          = lastOp.text

\* the user a step acts for: the user of its handle, or the email it names
ActingUser ==
    IF lastOp'.h \in AllHandles
    THEN IF mgr[lastOp'.h].user # None THEN mgr[lastOp'.h].user ELSE mgr'[lastOp'.h].user
    ELSE lastOp'.user

\* C13: every step taken for one user leaves the stored document of every
\* other user, and the objects loaded for every other user, as they were, under
\* every interleaving of the two users' requests; a user that has just signed
\* up has an empty journal.
C13_OtherUsersUntouched ==
    [][/\ \A u \in AllUsers :
             u # ActingUser =>
                /\ db'[u] = db[u]
                /\ \A h \in AllHandles : mgr[h].user = u => mgr'[h] = mgr[h]
       /\ (lastOp'.op = "signup" /\ lastOp'.raised = None) =>
             /\ db'[lastOp'.user].registered
             /\ db'[lastOp'.user].journal = EmptyJournal]_vars

\* the second user has signed up and appended while the first user's journal
\* holds an entry and the first user's request is still open
C13_Witness ==
    /\ lastOp.op = "add_journal_entry"
    /\ lastOp.h = 2
    /\ mgr[1].state = "ready"
    /\ entry_count(db["u1"].journal) = 1
    /\ entry_count(db["u2"].journal) = 1

\* C14: every successful add_entry_transcription sets the matched entry's
\* transcription and refreshes its updated_at: afterwards updated_at is not
\* earlier than the time of the call, and is later than created_at when the
\* call happens later than the append.
C14_TranscriptionRefreshesUpdatedAt ==
    (lastOp.op = "add_entry_transcription" /\ lastOp.raised = None) =>
        LET e == db[mgr[lastOp.h].user].journal[lastOp.key].entries[lastOp.time]
        IN  /\ e.transcription = lastOp.text
            /\ e.updated_at >= utcnow.t
            /\ utcnow.t > e.created_at => e.updated_at > e.created_at

C15_WitnessRefused ==
    /\ lastOp.op = "login"
    /\ db[lastOp.user].registered
    /\ lastOp.status = 401

\* C16: in every step, every stored entry whose bundle the step does not
\* delete stays in its bundle at its position, before every entry appended
\* later, with id, recording_file_name, recording_length_in_seconds and
\* created_at unchanged; a bundle disappears only by a delete_day_bundle of its
\* key, and transcription and updated_at change only in the entry matched by
\* a successful add_entry_transcription.
C16_EntriesStayPut ==
    [][\A u \in Users :
        LET old == db[u].journal
            new == db'[u].journal
            op == lastOp'.op
            ok == lastOp'.raised = None
        IN  \A k \in DOMAIN old :
               IF k \notin DOMAIN new
               THEN op = "delete_day_bundle" /\ ok /\ lastOp'.key = k
               ELSE /\ Len(new[k].entries) >= Len(old[k].entries)
                    /\ \A i \in 1..Len(old[k].entries) :
                          LET e == old[k].entries[i]
                              f == new[k].entries[i]
                          IN  /\ f.id = e.id
                              /\ f.recording_file_name = e.recording_file_name
                              /\ f.recording_length_in_seconds = e.recording_length_in_seconds
                              /\ f.created_at = e.created_at
                              /\ f # e =>
                                    /\ op = "add_entry_transcription" /\ ok
                                    /\ lastOp'.key = k /\ lastOp'.time = i
                    /\ \A j \in DOMAIN new \ DOMAIN old :
                          op = "add_journal_entry" /\ j = lastOp'.key]_vars

\* a second entry has been appended behind a transcribed one
C16_Witness ==
    /\ lastOp.op = "add_journal_entry"
    /\ LET e == db[mgr[lastOp.h].user].journal[lastOp.key].entries
       IN  /\ Len(e) = 2
           /\ e[1].transcription # None
           /\ e[1].id # e[2].id

\* C17: in every reachable state no two entries of one stored bundle have the
\* same id, so that add_entry_transcription can match at most one entry of
\* today's bundle.
C17_IdsUniqueInBundle ==
    \A u \in Users :
        \A k \in DOMAIN db[u].journal :
            LET e == db[u].journal[k].entries
            IN  \A i, j \in 1..Len(e) : e[i].id = e[j].id => i = j

\* C18: an upload whose content type does not start with 'audio/' is answered
\* with status 400 and creates no journal entry.
C18_InvalidTypeIs400 ==
    (lastOp.op = "upload_audio" /\ lastOp.text = "Invalid file type") =>
        /\ lastOp.status = 400
        /\ db[mgr[lastOp.h].user].journal = mgr[lastOp.h].before

\* the upload request of handle h has ended with an error response
UploadFailed(h) ==
    /\ lastOp.op = "upload_audio"
    /\ lastOp.h = h
    /\ lastOp.status >= 400

\* C19, as stated: whenever the upload request ends with an error response the
\* stored journal is the same as before the request, also when the
\* transcription call or add_entry_transcription fails after the append.
C19_ErrorLeavesStoreUnchanged ==
    \A h \in Handles :
        UploadFailed(h) => db[mgr[h].user].journal = mgr[h].before

\* C19, amended: when the upload request ends with an error response raised
\* before the append (invalid file type, failed upload to S3, unparsable
\* length) the stored journal is the same as before the request; when the
\* error comes after the append (the transcription call or
\* add_entry_transcription fails) the stored journal is the one before the
\* request with the appended entry added at the end of its day's bundle,
\* untranscribed.
C19_ErrorKeepsAppendedEntry ==
    \A h \in Handles :
        UploadFailed(h) =>
            LET before == mgr[h].before
                stored == db[mgr[h].user].journal
                this == mgr[h].this_entry
            IN  IF this = NoEntry
                THEN stored = before
                ELSE /\ DOMAIN stored = DOMAIN before \cup {this.key}
                     /\ \A k \in DOMAIN before \ {this.key} : stored[k] = before[k]
                     /\ LET old == IF this.key \in DOMAIN before
                                   THEN before[this.key].entries ELSE <<>>
                            new == stored[this.key].entries
                        IN  /\ Len(new) = Len(old) + 1
                            /\ \A i \in 1..Len(old) : new[i] = old[i]
                            /\ new[Len(new)].id = this.id
                            /\ new[Len(new)].transcription = None

\* the transcription call failed after the append: the request ends with an
\* error and the entry is stored
C19_Witness ==
    /\ UploadFailed(1)
    /\ mgr[1].this_entry # NoEntry
    /\ lastOp.text = "APIError"
    /\ entry_count(db[mgr[1].user].journal) = entry_count(mgr[1].before) + 1

\* the request failed before the append
C19_WitnessEarly ==
    /\ UploadFailed(1)
    /\ mgr[1].this_entry = NoEntry
    /\ lastOp.text = "ValueError"
    /\ entry_count(mgr[1].before) = 1

====
